---- MODULE Spec2Model ----
(***************************************************************************)
(* Validation of an archived B-tree map (rkyv):                            *)
(*   check_archived_root_with_context / check_archived_value_with_context  *)
(*   (src/rkyv/src/validation/mod.rs) driving                              *)
(*   ArchivedBTreeMap::check_bytes                                         *)
(*   (src/rkyv/src/collections/btree_map/validation.rs).                   *)
(*                                                                         *)
(* The archive is a sequence of machine words; addresses are byte          *)
(* addresses from the start of the buffer.  A node is                      *)
(*   meta | ptr | entry_1 | ... | entry_len                                *)
(* with inner entries (key, child RelPtr) and leaf entries (key, value).   *)
(* A RelPtr is one word holding a signed byte offset from its own address. *)
(***************************************************************************)
EXTENDS Integers, Sequences, FiniteSets, TLC

VARIABLES
    buf,          \* the archive: sequence of words
    buflen,       \* buf.len() in bytes
    pos,          \* position of the root object passed to check_archived_value_with_context
    pc,           \* position of the validation call
    root,         \* ptr returned by check_ptr: address of the ArchivedBTreeMap header
    ctx,          \* ArchiveContext state: subtree range, depth of pushed ranges, owned claims
    range,        \* the ArchivePrefixRange token held by check_archived_value_with_context
    len,          \* archived header field len
    nodes,        \* VecDeque of (ClassifiedNode, depth)
    visited,      \* every (ClassifiedNode, depth) ever pushed to nodes, in push order
    node,         \* the inner node removed from the front of nodes, and its depth
    idx,          \* index of the next entry of node.tail to walk
    i,            \* index into nodes of the phase-2 loop
    entry_count,  \* running sum of leaf tail lengths
    result,       \* "none" while running, else the Result of the call
    log,          \* context operations issued so far, in order
    held,         \* range tokens handed out by push_*_subtree_range, in push order
    shared        \* SharedArchiveContext: the (address, type id) pairs recorded

vars == <<buf, buflen, pos, pc, root, ctx, range, len, nodes, visited, node, idx, i,
          entry_count, result, log, held, shared>>

-----------------------------------------------------------------------------
(* Layout *)

\* a word is one archived usize / isize; its size in bytes is also the alignment
\* of every node; the high bit of meta is the inner flag, the rest the entry count
WordSize == 2
InnerFlag == 128
MIN_ENTRIES_PER_INNER_NODE == 1
MIN_ENTRIES_PER_LEAF_NODE == 1

HeaderSize == 2 * WordSize
EntrySize == 2 * WordSize
RootSize == 2 * WordSize

Word(b, a) == b[(a \div WordSize) + 1]

split_meta(meta) ==
    LET u == meta % (2 * InnerFlag)
    IN  [is_inner |-> u >= InnerFlag, len |-> u % InnerFlag]

NodeLen(b, a) == split_meta(Word(b, a)).len
NodeIsInner(b, a) == split_meta(Word(b, a)).is_inner
NodeSize(b, a) == HeaderSize + NodeLen(b, a) * EntrySize

PtrBase(a) == a + WordSize
EntryAddr(a, j) == a + HeaderSize + (j - 1) * EntrySize
EntryKey(b, a, j) == Word(b, EntryAddr(a, j))
EntryPtrBase(a, j) == EntryAddr(a, j) + WordSize

-----------------------------------------------------------------------------
(* Validation context *)

Ok(v) == [ok |-> TRUE, val |-> v, err |-> "none"]
Err(e) == [ok |-> FALSE, val |-> 0, err |-> e]

\* n is the length of the buffer in bytes; the buffer starts at address 0
check_ptr(n, base, offset, size) ==
    LET target == base + offset
    IN  IF target < 0 \/ target >= n THEN Err("OutOfBounds")
        ELSE IF target % WordSize # 0 THEN Err("Unaligned")
        ELSE IF target + size > n THEN Err("Overrun")
        ELSE Ok(target)

check_rel_ptr(b, n, rel, size) == check_ptr(n, rel, Word(b, rel), size)

check_subtree_ptr_bounds(c, ptr, size) ==
    IF ptr >= c.lo /\ ptr + size <= c.hi THEN Ok(ptr) ELSE Err("SubtreeOutOfRange")

Intersects(r, lo, hi) == r[1] < hi /\ lo < r[2]

\* a pointer into an owned region is claimed again
claim_owned_rel_ptr_again(b, n, c, rel) ==
    LET p == check_rel_ptr(b, n, rel, HeaderSize)
    IN  IF ~p.ok THEN p
        ELSE IF ~check_subtree_ptr_bounds(c, p.val, HeaderSize).ok
             THEN Err("SubtreeOutOfRange")
        ELSE Ok(p.val)

\* the claim is made before the node is classified, so the region it owns is
\* that of the sized pointee RawNode: the header of the node
claim_owned_rel_ptr(b, n, c, rel) ==
    LET p == check_rel_ptr(b, n, rel, HeaderSize)
    IN  IF ~p.ok THEN p
        ELSE IF ~check_subtree_ptr_bounds(c, p.val, HeaderSize).ok
             THEN Err("SubtreeOutOfRange")
        ELSE IF \E r \in c.claims : Intersects(r, p.val, p.val + HeaderSize)
             THEN Err("DuplicateClaim")
        ELSE Ok(p.val)

Claimed(c, ptr) == [c EXCEPT !.claims = @ \cup {<<ptr, ptr + HeaderSize>>}]

\* the range becomes [lo, r); popping the token leaves [end, original hi)
push_prefix_subtree_range(c, r, end) ==
    [token |-> [lo |-> end, hi |-> c.hi, depth |-> c.depth],
     ctx |-> [c EXCEPT !.depth = @ + 1, !.hi = r]]

pop_prefix_range_unordered(c, token) ==
    [ok |-> TRUE, err |-> "none",
     ctx |-> [c EXCEPT !.lo = token.lo, !.hi = token.hi, !.depth = token.depth]]

pop_prefix_range(c, token) ==
    IF c.depth - 1 # token.depth
    THEN [ok |-> FALSE, err |-> "RangePopOutOfOrder", ctx |-> c]
    ELSE [ok |-> TRUE, err |-> "none",
          ctx |-> [c EXCEPT !.lo = token.lo, !.hi = token.hi, !.depth = token.depth]]

\* the range becomes [start, r); popping the token leaves [original lo, start)
push_suffix_subtree_range(c, start, r) ==
    [token |-> [lo |-> c.lo, hi |-> start, depth |-> c.depth],
     ctx |-> [c EXCEPT !.depth = @ + 1, !.lo = start, !.hi = r]]

pop_suffix_range(c, token) ==
    IF c.depth - 1 # token.depth
    THEN [ok |-> FALSE, err |-> "RangePopOutOfOrder", ctx |-> c]
    ELSE [ok |-> TRUE, err |-> "none",
          ctx |-> [c EXCEPT !.lo = token.lo, !.hi = token.hi, !.depth = token.depth]]

finish_unchecked(c) == Ok(0)

finish(c) == IF c.depth # 0 THEN Err("UnpoppedSubtreeRanges") ELSE Ok(0)

\* a recorded address is never compared by type id
check_shared_ptr_untyped(s, ptr, type_id) ==
    IF \A e \in s : e[1] # ptr
    THEN [ok |-> TRUE, val |-> <<"Some", ptr>>, err |-> "none",
          shared |-> s \cup {<<ptr, type_id>>}]
    ELSE [ok |-> TRUE, val |-> <<"None">>, err |-> "none", shared |-> s]

\* s is the set of (address, type id) pairs recorded so far; the first sight
\* of an address records it and hands the pointer back to be checked
check_shared_ptr(s, ptr, type_id) ==
    IF \A e \in s : e[1] # ptr
    THEN [ok |-> TRUE, val |-> <<"Some", ptr>>, err |-> "none",
          shared |-> s \cup {<<ptr, type_id>>}]
    ELSE IF <<ptr, type_id>> \in s
    THEN [ok |-> TRUE, val |-> <<"None">>, err |-> "none", shared |-> s]
    ELSE [ok |-> FALSE, val |-> <<"None">>, err |-> "SharedTypeMismatch", shared |-> s]

Op(name, site, arg, r) ==
    [op |-> name, site |-> site, arg |-> arg, ok |-> r.ok, err |-> r.err]

-----------------------------------------------------------------------------
(* Errors and results *)

E(kind) == [kind |-> kind, x |-> 0, y |-> 0, ctx |-> "none"]
E1(kind, x) == [kind |-> kind, x |-> x, y |-> 0, ctx |-> "none"]
E2(kind, x, y) == [kind |-> kind, x |-> x, y |-> y, ctx |-> "none"]
ContextError(e) == [kind |-> "ContextError", x |-> 0, y |-> 0, ctx |-> e]
StructCheckError(e) == [kind |-> "StructCheckError", x |-> 0, y |-> 0, ctx |-> e]

NoResult == [outer |-> "none", err |-> E("none")]
OkResult == [outer |-> "Ok", err |-> E("none")]
CheckArchiveError(outer, e) == [outer |-> outer, err |-> e]

-----------------------------------------------------------------------------
(* Byte checks of nodes *)

\* InnerNodeEntry::check_bytes resolves the child pointer within the buffer and
\* byte-checks the RawNode header found there (two plain words: it cannot fail)
\* before it checks the key; keys and values are plain words
bounds_check_ptr(b, n, rel) == check_rel_ptr(b, n, rel, HeaderSize)

InnerNodeEntry_check_bytes(b, n, a, j) == bounds_check_ptr(b, n, EntryPtrBase(a, j))

FirstBadEntry(b, n, a) ==
    LET bad == {j \in 1..NodeLen(b, a) : ~InnerNodeEntry_check_bytes(b, n, a, j).ok}
    IN  IF bad = {} THEN 0 ELSE CHOOSE j \in bad : \A k \in bad : j <= k

\* the entry count of an inner node is not compared with the minimum
InnerNode_check_bytes_any_count(b, n, a) ==
    LET cnt == NodeLen(b, a)
        k == FirstBadEntry(b, n, a)
        last == IF k = 0 THEN cnt ELSE k
    IN  [ok |-> k = 0,
         err |-> IF k = 0 THEN E("none")
                 ELSE StructCheckError(InnerNodeEntry_check_bytes(b, n, a, k).err),
         ops |-> [j \in 1..last |->
                     Op("bounds_check_ptr", "entry", EntryPtrBase(a, j),
                        InnerNodeEntry_check_bytes(b, n, a, j))]]

InnerNode_check_bytes(b, n, a) ==
    LET cnt == NodeLen(b, a)
        k == FirstBadEntry(b, n, a)
        last == IF k = 0 THEN cnt ELSE k
    IN  IF cnt < MIN_ENTRIES_PER_INNER_NODE
        THEN [ok |-> FALSE, err |-> E1("TooFewInnerNodeEntries", cnt), ops |-> <<>>]
        ELSE [ok |-> k = 0,
              err |-> IF k = 0 THEN E("none")
                      ELSE StructCheckError(InnerNodeEntry_check_bytes(b, n, a, k).err),
              ops |-> [j \in 1..last |->
                          Op("bounds_check_ptr", "entry", EntryPtrBase(a, j),
                             InnerNodeEntry_check_bytes(b, n, a, j))]]

\* the entry count of a leaf is not compared with the minimum
LeafNode_check_bytes_any_count(b, n, a) == [ok |-> TRUE, err |-> E("none"), ops |-> <<>>]

LeafNode_check_bytes(b, n, a) ==
    LET cnt == NodeLen(b, a)
    IN  IF cnt < MIN_ENTRIES_PER_LEAF_NODE
        THEN [ok |-> FALSE, err |-> E1("TooFewLeafNodeEntries", cnt), ops |-> <<>>]
        ELSE [ok |-> TRUE, err |-> E("none"), ops |-> <<>>]

\* the tail named by meta must lie inside the buffer before the node is cast
\* to InnerNode or LeafNode and byte-checked
check_and_classify(b, n, a) ==
    LET t == check_ptr(n, a, 0, NodeSize(b, a))
        c == IF NodeIsInner(b, a) THEN InnerNode_check_bytes(b, n, a)
             ELSE LeafNode_check_bytes(b, n, a)
    IN  IF ~t.ok
        THEN [ok |-> FALSE, inner |-> NodeIsInner(b, a), err |-> ContextError(t.err),
              ops |-> <<Op("check_ptr", "tail", a, t)>>]
        ELSE [ok |-> c.ok, inner |-> NodeIsInner(b, a), err |-> c.err,
              ops |-> <<Op("check_ptr", "tail", a, t)>> \o c.ops]

\* every node is queued at the depth of the root
ClassifiedAtRootDepth(b, a, depth) == [addr |-> a, inner |-> NodeIsInner(b, a), depth |-> 0]

Classified(b, a, depth) == [addr |-> a, inner |-> NodeIsInner(b, a), depth |-> depth]

-----------------------------------------------------------------------------
(* check_archived_root_with_context / check_archived_value_with_context *)

Return(r) ==
    /\ result' = r
    /\ pc' = "done"

\* usize arithmetic: a subtraction that overflows panics in a build with
\* overflow checks and wraps in a build without them
UsizeBits == 16
wrapping_sub(a, b) == (a - b) % (2 ^ UsizeBits)
as_isize(u) == IF u >= 2 ^ (UsizeBits - 1) THEN u - 2 ^ UsizeBits ELSE u
Panicked == [outer |-> "panic", err |-> E("attempt to subtract with overflow")]
Builds(n) == IF n < RootSize THEN {"checked", "wrapping"} ELSE {"wrapping"}

check_archived_root_with_context ==
    /\ pc = "start"
    /\ \E build \in Builds(buflen) :
          IF build = "checked"
          THEN Return(Panicked) /\ UNCHANGED pos
          ELSE /\ pos' = wrapping_sub(buflen, RootSize)
               /\ pc' = "check_ptr"
               /\ UNCHANGED result
    /\ UNCHANGED <<held, shared, buf, buflen, root, ctx, range, len, nodes, visited, node, idx, i,
                   entry_count, log>>

\* the root's check_bytes is entered without pushing the prefix range
CheckRootPtrNoPush ==
    /\ pc = "check_ptr"
    /\ LET r == check_ptr(buflen, 0, as_isize(pos), RootSize)
       IN  /\ log' = Append(log, Op("check_ptr", "root", pos, r))
           /\ IF r.ok
              THEN /\ root' = r.val
                   /\ pc' = "claim_root"
                   /\ UNCHANGED result
              ELSE /\ Return(CheckArchiveError("ContextError", ContextError(r.err)))
                   /\ UNCHANGED root
    /\ UNCHANGED <<held, shared, buf, buflen, pos, ctx, range, len, nodes, visited, node, idx, i, entry_count>>

CheckRootPtr ==
    /\ pc = "check_ptr"
    /\ LET r == check_ptr(buflen, 0, as_isize(pos), RootSize)
       IN  /\ log' = Append(log, Op("check_ptr", "root", pos, r))
           /\ IF r.ok
              THEN /\ root' = r.val
                   /\ pc' = "push"
                   /\ UNCHANGED result
              ELSE /\ Return(CheckArchiveError("ContextError", ContextError(r.err)))
                   /\ UNCHANGED root
    /\ UNCHANGED <<held, shared, buf, buflen, pos, ctx, range, len, nodes, visited, node, idx, i, entry_count>>

PushPrefixSubtree ==
    /\ pc = "push"
    /\ LET r == push_prefix_subtree_range(ctx, root, root + RootSize)
       IN  /\ ctx' = r.ctx
           /\ range' = r.token
           /\ log' = Append(log, Op("push_prefix_subtree_range", "root", root, Ok(0)))
    /\ pc' = "claim_root"
    /\ UNCHANGED <<held, shared, buf, buflen, pos, root, len, nodes, visited, node, idx, i, entry_count,
                   result>>

-----------------------------------------------------------------------------
(* ArchivedBTreeMap::check_bytes *)

CheckBytesFailed(e) == Return(CheckArchiveError("CheckBytesError", e))

\* the pointer is resolved with check_rel_ptr and never claimed
ClaimAndClassifyUnclaimed(rel, site) ==
    LET p == check_rel_ptr(buf, buflen, rel, HeaderSize)
        c == check_and_classify(buf, buflen, p.val)
    IN  IF ~p.ok
        THEN [ok |-> FALSE, ptr |-> 0, err |-> ContextError(p.err), ctx |-> ctx,
              ops |-> <<Op("claim_owned_rel_ptr", site, rel, p)>>]
        ELSE [ok |-> c.ok, ptr |-> p.val, err |-> c.err, ctx |-> ctx,
              ops |-> <<Op("claim_owned_rel_ptr", site, rel, p)>> \o c.ops]

\* claim_owned_rel_ptr(rel) followed by Node::check_and_classify of the claimed pointer
ClaimAndClassify(rel, site) ==
    LET p == claim_owned_rel_ptr(buf, buflen, ctx, rel)
        c == check_and_classify(buf, buflen, p.val)
    IN  IF ~p.ok
        THEN [ok |-> FALSE, ptr |-> 0, err |-> ContextError(p.err), ctx |-> ctx,
              ops |-> <<Op("claim_owned_rel_ptr", site, rel, p)>>]
        ELSE [ok |-> c.ok, ptr |-> p.val, err |-> c.err, ctx |-> Claimed(ctx, p.val),
              ops |-> <<Op("claim_owned_rel_ptr", site, rel, p)>> \o c.ops]

ClaimRoot ==
    /\ pc = "claim_root"
    /\ len' = Word(buf, root)
    /\ LET r == ClaimAndClassify(PtrBase(root), "root")
       IN  /\ log' = log \o r.ops
           /\ ctx' = r.ctx
           /\ IF r.ok
              THEN /\ nodes' = <<Classified(buf, r.ptr, 0)>>
                   /\ visited' = <<Classified(buf, r.ptr, 0)>>
                   /\ pc' = "walk"
                   /\ UNCHANGED result
              ELSE /\ CheckBytesFailed(r.err)
                   /\ UNCHANGED <<nodes, visited>>
    /\ UNCHANGED <<held, shared, buf, buflen, pos, root, range, node, idx, i, entry_count>>

FrontIsInner == nodes # <<>> /\ Head(nodes).inner

\* one iteration of the while loop up to the for loop over the entries
WalkInner ==
    /\ pc = "walk"
    /\ FrontIsInner
    /\ node' = Head(nodes)
    /\ LET r == ClaimAndClassify(PtrBase(Head(nodes).addr), "left")
           prev_child_node == Classified(buf, r.ptr, Head(nodes).depth + 1)
       IN  /\ log' = log \o r.ops
           /\ ctx' = r.ctx
           /\ IF r.ok
              THEN /\ nodes' = Append(Tail(nodes), prev_child_node)
                   /\ visited' = Append(visited, prev_child_node)
                   /\ idx' = 1
                   /\ pc' = IF NodeLen(buf, Head(nodes).addr) >= 1 THEN "entries" ELSE "walk"
                   /\ UNCHANGED result
              ELSE /\ nodes' = Tail(nodes)
                   /\ CheckBytesFailed(r.err)
                   /\ UNCHANGED <<visited, idx>>
    /\ UNCHANGED <<held, shared, buf, buflen, pos, root, range, len, i, entry_count>>

\* the child's first key is not compared with the entry's key
ChildKeyUnchecked(child, j) == TRUE

\* the key is compared for leaf children only
ChildKeyMatchesLeafOnly(child, j) ==
    NodeIsInner(buf, child) \/ EntryKey(buf, child, 1) = EntryKey(buf, node.addr, j)

ChildKeyMatches(child, j) == EntryKey(buf, child, 1) = EntryKey(buf, node.addr, j)

\* one iteration of the for loop over node.tail
WalkEntry ==
    /\ pc = "entries"
    /\ LET r == ClaimAndClassify(EntryPtrBase(node.addr, idx), "entry")
           child_node == Classified(buf, r.ptr, node.depth + 1)
       IN  /\ log' = log \o r.ops
           /\ ctx' = r.ctx
           /\ IF ~r.ok
              THEN /\ CheckBytesFailed(r.err)
                   /\ UNCHANGED <<nodes, visited, idx>>
              ELSE IF ~ChildKeyMatches(r.ptr, idx)
              THEN /\ CheckBytesFailed(E("MismatchedInnerChildKey"))
                   /\ UNCHANGED <<nodes, visited, idx>>
              ELSE /\ nodes' = Append(nodes, child_node)
                   /\ visited' = Append(visited, child_node)
                   /\ idx' = idx + 1
                   /\ pc' = IF idx < NodeLen(buf, node.addr) THEN "entries" ELSE "walk"
                   /\ UNCHANGED result
    /\ UNCHANGED <<held, shared, buf, buflen, pos, root, range, len, node, i, entry_count>>

\* the while-let pattern no longer matches: the front is not an inner node
WalkExit ==
    /\ pc = "walk"
    /\ ~FrontIsInner
    /\ i' = 1
    /\ entry_count' = 0
    /\ pc' = IF nodes = <<>> THEN "count" ELSE "leaves"
    /\ UNCHANGED <<held, shared, buf, buflen, pos, root, ctx, range, len, nodes, visited, node, idx,
                   result, log>>

\* a key equal to the key before it counts as out of order
LeafEntriesStrictlySorted(a) ==
    \A j \in 1..(NodeLen(buf, a) - 1) : EntryKey(buf, a, j) < EntryKey(buf, a, j + 1)

LeafEntriesSorted(a) ==
    \A j \in 1..(NodeLen(buf, a) - 1) : ~(EntryKey(buf, a, j + 1) < EntryKey(buf, a, j))

ForwardPtr(a) == check_rel_ptr(buf, buflen, PtrBase(a), HeaderSize)

\* a null forward pointer passes for a link to the next queued node
LeafLinkedOrNull(a, next) == Word(buf, PtrBase(a)) = 0 \/ ForwardPtr(a).val = next

\* the resolved forward pointer is not compared with the next queued node
LeafLinkedUnchecked(a, next) == ForwardPtr(a).ok

LeafLinked(a, next) == ForwardPtr(a).val = next

\* the next leaf's first key is compared with this leaf's first key
LeafOrderedByFirstKey(a, next) == ~(EntryKey(buf, next, 1) < EntryKey(buf, a, 1))

\* the keys of a leaf are not compared with those of the next leaf
LeafOrderedUnchecked(a, next) == TRUE

LeafOrdered(a, next) == ~(EntryKey(buf, next, 1) < EntryKey(buf, a, NodeLen(buf, a)))

ForwardIsNull(a) == Word(buf, PtrBase(a)) = 0

\* one is added per leaf instead of the leaf's tail length
TailLenOne(a) == 1

TailLen(a) == NodeLen(buf, a)

\* the depth of a leaf is not compared with the depth of the first leaf
LeafErrorNoDepthCheck(k) ==
    LET n == nodes[k]
    IN  IF n.inner THEN E("InnerNodeInLeafLevel")
        ELSE IF ~LeafEntriesSorted(n.addr) THEN E("UnsortedLeafNodeEntries")
        ELSE IF k < Len(nodes)
        THEN IF ~ForwardPtr(n.addr).ok THEN ContextError(ForwardPtr(n.addr).err)
             ELSE IF nodes[k + 1].inner THEN E("InnerNodeInLeafLevel")
             ELSE IF ~LeafLinked(n.addr, nodes[k + 1].addr) THEN E("UnlinkedLeafNode")
             ELSE IF ~LeafOrdered(n.addr, nodes[k + 1].addr) THEN E("UnsortedLeafNode")
             ELSE E("none")
        ELSE IF ~ForwardIsNull(n.addr) THEN E("LastLeafForwardPointerNotNull")
        ELSE E("none")

\* the next queued node is matched against Leaf after the link comparison
LeafErrorLinkFirst(k) ==
    LET n == nodes[k]
    IN  IF n.inner THEN E("InnerNodeInLeafLevel")
        ELSE IF n.depth # nodes[1].depth
        THEN E2("InvalidLeafNodeDepth", nodes[1].depth, n.depth)
        ELSE IF ~LeafEntriesSorted(n.addr) THEN E("UnsortedLeafNodeEntries")
        ELSE IF k < Len(nodes)
        THEN IF ~ForwardPtr(n.addr).ok THEN ContextError(ForwardPtr(n.addr).err)
             ELSE IF ~LeafLinked(n.addr, nodes[k + 1].addr) THEN E("UnlinkedLeafNode")
             ELSE IF nodes[k + 1].inner THEN E("InnerNodeInLeafLevel")
             ELSE IF ~LeafOrdered(n.addr, nodes[k + 1].addr) THEN E("UnsortedLeafNode")
             ELSE E("none")
        ELSE IF ~ForwardIsNull(n.addr) THEN E("LastLeafForwardPointerNotNull")
        ELSE E("none")

\* a failed check_rel_ptr of the forward pointer is reported as a missing link
LeafErrorForwardUnwrapped(k) ==
    LET n == nodes[k]
    IN  IF n.inner THEN E("InnerNodeInLeafLevel")
        ELSE IF n.depth # nodes[1].depth
        THEN E2("InvalidLeafNodeDepth", nodes[1].depth, n.depth)
        ELSE IF ~LeafEntriesSorted(n.addr) THEN E("UnsortedLeafNodeEntries")
        ELSE IF k < Len(nodes)
        THEN IF ~ForwardPtr(n.addr).ok THEN E("UnlinkedLeafNode")
             ELSE IF nodes[k + 1].inner THEN E("InnerNodeInLeafLevel")
             ELSE IF ~LeafLinked(n.addr, nodes[k + 1].addr) THEN E("UnlinkedLeafNode")
             ELSE IF ~LeafOrdered(n.addr, nodes[k + 1].addr) THEN E("UnsortedLeafNode")
             ELSE E("none")
        ELSE IF ~ForwardIsNull(n.addr) THEN E("LastLeafForwardPointerNotNull")
        ELSE E("none")

\* expected_depth is taken from the last queued node instead of the first
LeafErrorExpectedFromLast(k) ==
    LET n == nodes[k]
    IN  IF n.inner THEN E("InnerNodeInLeafLevel")
        ELSE IF n.depth # nodes[Len(nodes)].depth
        THEN E2("InvalidLeafNodeDepth", nodes[Len(nodes)].depth, n.depth)
        ELSE IF ~LeafEntriesSorted(n.addr) THEN E("UnsortedLeafNodeEntries")
        ELSE IF k < Len(nodes)
        THEN IF ~ForwardPtr(n.addr).ok THEN ContextError(ForwardPtr(n.addr).err)
             ELSE IF nodes[k + 1].inner THEN E("InnerNodeInLeafLevel")
             ELSE IF ~LeafLinked(n.addr, nodes[k + 1].addr) THEN E("UnlinkedLeafNode")
             ELSE IF ~LeafOrdered(n.addr, nodes[k + 1].addr) THEN E("UnsortedLeafNode")
             ELSE E("none")
        ELSE IF ~ForwardIsNull(n.addr) THEN E("LastLeafForwardPointerNotNull")
        ELSE E("none")

\* the checks of one iteration of the loop over nodes, in the order of the code
LeafError(k) ==
    LET n == nodes[k]
    IN  IF n.inner THEN E("InnerNodeInLeafLevel")
        ELSE IF n.depth # nodes[1].depth
        THEN E2("InvalidLeafNodeDepth", nodes[1].depth, n.depth)
        ELSE IF ~LeafEntriesSorted(n.addr) THEN E("UnsortedLeafNodeEntries")
        ELSE IF k < Len(nodes)
        THEN IF ~ForwardPtr(n.addr).ok THEN ContextError(ForwardPtr(n.addr).err)
             ELSE IF nodes[k + 1].inner THEN E("InnerNodeInLeafLevel")
             ELSE IF ~LeafLinked(n.addr, nodes[k + 1].addr) THEN E("UnlinkedLeafNode")
             ELSE IF ~LeafOrdered(n.addr, nodes[k + 1].addr) THEN E("UnsortedLeafNode")
             ELSE E("none")
        ELSE IF ~ForwardIsNull(n.addr) THEN E("LastLeafForwardPointerNotNull")
        ELSE E("none")

\* whether iteration k reaches the check_rel_ptr of the forward pointer
ResolvesForward(k) ==
    /\ k < Len(nodes)
    /\ ~nodes[k].inner
    /\ nodes[k].depth = nodes[1].depth
    /\ LeafEntriesSorted(nodes[k].addr)

\* the resolved forward pointer is claimed as an owned node
LeafCheckClaiming ==
    /\ pc = "leaves"
    /\ LET e == LeafError(i)
           f == ForwardPtr(nodes[i].addr)
       IN  /\ log' = IF ResolvesForward(i)
                     THEN Append(log, Op("check_rel_ptr", "forward", PtrBase(nodes[i].addr), f))
                     ELSE log
           /\ ctx' = IF ResolvesForward(i) /\ f.ok THEN Claimed(ctx, f.val) ELSE ctx
           /\ IF e.kind # "none"
              THEN /\ CheckBytesFailed(e)
                   /\ UNCHANGED <<i, entry_count>>
              ELSE /\ entry_count' = entry_count + TailLen(nodes[i].addr)
                   /\ i' = i + 1
                   /\ pc' = IF i < Len(nodes) THEN "leaves" ELSE "count"
                   /\ UNCHANGED result
    /\ UNCHANGED <<held, shared, buf, buflen, pos, root, range, len, nodes, visited, node, idx>>

\* one iteration of the loop over the remaining nodes
LeafCheck ==
    /\ pc = "leaves"
    /\ LET e == LeafError(i)
       IN  /\ log' = IF ResolvesForward(i)
                     THEN Append(log, Op("check_rel_ptr", "forward", PtrBase(nodes[i].addr),
                                        ForwardPtr(nodes[i].addr)))
                     ELSE log
           /\ IF e.kind # "none"
              THEN /\ CheckBytesFailed(e)
                   /\ UNCHANGED <<i, entry_count>>
              ELSE /\ entry_count' = entry_count + TailLen(nodes[i].addr)
                   /\ i' = i + 1
                   /\ pc' = IF i < Len(nodes) THEN "leaves" ELSE "count"
                   /\ UNCHANGED result
    /\ UNCHANGED <<held, shared, buf, buflen, pos, root, ctx, range, len, nodes, visited, node, idx>>

CountCheck ==
    /\ pc = "count"
    /\ IF entry_count # len
       THEN CheckBytesFailed(E2("LengthMismatch", len, entry_count))
       ELSE /\ pc' = "pop"
            /\ UNCHANGED result
    /\ UNCHANGED <<held, shared, buf, buflen, pos, root, ctx, range, len, nodes, visited, node, idx, i,
                   entry_count, log>>

-----------------------------------------------------------------------------
(* check_archived_value_with_context, after the root's check_bytes *)

\* finish is called without popping the prefix range
PopPrefixRangeSkipped ==
    /\ pc = "pop"
    /\ pc' = "finish"
    /\ UNCHANGED <<held, shared, buf, buflen, pos, root, ctx, range, len, nodes, visited, node, idx, i,
                   entry_count, result, log>>

PopPrefixRange ==
    /\ pc = "pop"
    /\ LET r == pop_prefix_range(ctx, range)
       IN  /\ ctx' = r.ctx
           /\ log' = Append(log, Op("pop_prefix_range", "root", range.depth, r))
           /\ IF r.ok
              THEN /\ pc' = "finish"
                   /\ UNCHANGED result
              ELSE Return(CheckArchiveError("ContextError", ContextError(r.err)))
    /\ UNCHANGED <<held, shared, buf, buflen, pos, root, range, len, nodes, visited, node, idx, i,
                   entry_count>>

Finish ==
    /\ pc = "finish"
    /\ LET r == finish(ctx)
       IN  /\ log' = Append(log, Op("finish", "root", 0, r))
           /\ IF r.ok
              THEN Return(OkResult)
              ELSE Return(CheckArchiveError("ContextError", ContextError(r.err)))
    /\ UNCHANGED <<held, shared, buf, buflen, pos, root, ctx, range, len, nodes, visited, node, idx, i,
                   entry_count>>

-----------------------------------------------------------------------------
(* Archives: trees laid out in the buffer format, node after node, the         *)
(* ArchivedBTreeMap header last.  A tree is a sequence of node descriptions    *)
(* that name each other by index (0: a null pointer).                          *)

MaxKey == 2
MaxLeafLen == 3

Leaf(ks, next) == [inner |-> FALSE, next |-> next, keys |-> ks, kids |-> <<>>]
Inner(ks, left, kids) == [inner |-> TRUE, next |-> left, keys |-> ks, kids |-> kids]

DescWords(d) == 2 + 2 * Len(d.keys)

RECURSIVE DescAddr(_, _)
DescAddr(ds, k) ==
    IF k = 1 THEN 0 ELSE DescAddr(ds, k - 1) + WordSize * DescWords(ds[k - 1])

TreeBytes(ds) == DescAddr(ds, Len(ds)) + WordSize * DescWords(ds[Len(ds)])

RelTo(ds, k, base) == IF k = 0 THEN 0 ELSE DescAddr(ds, k) - base

RECURSIVE EntryWords(_, _, _)
EntryWords(ds, k, j) ==
    IF j > Len(ds[k].keys) THEN <<>>
    ELSE <<ds[k].keys[j],
           IF ds[k].inner
           THEN RelTo(ds, ds[k].kids[j], EntryPtrBase(DescAddr(ds, k), j))
           ELSE 0>> \o EntryWords(ds, k, j + 1)

EncodeNode(ds, k) ==
    <<(IF ds[k].inner THEN InnerFlag ELSE 0) + Len(ds[k].keys),
      RelTo(ds, ds[k].next, PtrBase(DescAddr(ds, k)))>> \o EntryWords(ds, k, 1)

RECURSIVE EncodeNodes(_, _)
EncodeNodes(ds, k) ==
    IF k > Len(ds) THEN <<>> ELSE EncodeNode(ds, k) \o EncodeNodes(ds, k + 1)

\* the archive of the tree ds with root node r and header field len n
Encode(ds, r, n) ==
    EncodeNodes(ds, 1) \o <<n, RelTo(ds, r, PtrBase(TreeBytes(ds)))>>

RECURSIVE SumLeafLens(_, _)
SumLeafLens(ds, k) ==
    IF k = 0 THEN 0
    ELSE (IF ds[k].inner THEN 0 ELSE Len(ds[k].keys)) + SumLeafLens(ds, k - 1)

\* a root leaf
ShapeA(ks) == <<Leaf(ks, 0)>>
\* root -> two leaves
ShapeB(ks) ==
    <<Leaf(<<ks[1]>>, 2), Leaf(<<ks[2]>>, 0), Inner(<<ks[3]>>, 1, <<2>>)>>
\* root -> two leaves of two entries
ShapeB2(ks) ==
    <<Leaf(<<ks[1], ks[2]>>, 2), Leaf(<<ks[3], ks[4]>>, 0), Inner(<<ks[5]>>, 1, <<2>>)>>
\* root with two entries -> three leaves
ShapeC(ks) ==
    <<Leaf(<<ks[1]>>, 2), Leaf(<<ks[2]>>, 3), Leaf(<<ks[3]>>, 0),
      Inner(<<ks[4], ks[5]>>, 1, <<2, 3>>)>>
\* root -> two inner nodes -> four leaves
ShapeD(ks) ==
    <<Leaf(<<ks[1]>>, 2), Leaf(<<ks[2]>>, 3), Leaf(<<ks[3]>>, 4), Leaf(<<ks[4]>>, 0),
      Inner(<<ks[5]>>, 1, <<2>>), Inner(<<ks[6]>>, 3, <<4>>), Inner(<<ks[7]>>, 5, <<6>>)>>
\* root -> (inner -> two leaves), leaf: the entry child is one level shallower
ShapeM1(ks) ==
    <<Leaf(<<ks[1]>>, 2), Leaf(<<ks[2]>>, 0), Leaf(<<ks[3]>>, 1),
      Inner(<<ks[4]>>, 1, <<2>>), Inner(<<ks[5]>>, 4, <<3>>)>>
\* root -> leaf, (inner -> two leaves): the left-edge child is one level shallower
ShapeM2(ks) ==
    <<Leaf(<<ks[1]>>, 4), Leaf(<<ks[2]>>, 3), Leaf(<<ks[3]>>, 0),
      Inner(<<ks[4]>>, 2, <<3>>), Inner(<<ks[5]>>, 1, <<4>>)>>

Keys(n) == [1..n -> 0..MaxKey]

Lens(ds) == {m \in {SumLeafLens(ds, Len(ds)) + d : d \in {-1, 0, 1}} : m >= 0}

EncodeLens(ds) == {Encode(ds, Len(ds), m) : m \in Lens(ds)}

\* every key free, header len off by at most one
FreeKeyArchives ==
    UNION ( {EncodeLens(ShapeA(ks)) : ks \in UNION {Keys(n) : n \in 1..MaxLeafLen}}
            \cup {EncodeLens(ShapeB(ks)) : ks \in Keys(3)}
            \cup {EncodeLens(ShapeB2(ks)) : ks \in Keys(5)}
            \cup {EncodeLens(ShapeC(ks)) : ks \in Keys(5)}
            \cup {EncodeLens(ShapeM1(ks)) : ks \in Keys(5)}
            \cup {EncodeLens(ShapeM2(ks)) : ks \in Keys(5)} )
    \cup {Encode(ShapeD(ks), 7, 4) : ks \in Keys(7)}

Exact(ds) == Encode(ds, Len(ds), SumLeafLens(ds, Len(ds)))

\* archives the validator accepts, and the two uneven trees
BaseArchives ==
    { Exact(ShapeA(<<1>>)), Exact(ShapeA(<<1, 2, 3>>)),
      Exact(ShapeB(<<1, 2, 2>>)), Exact(ShapeB2(<<1, 2, 3, 4, 3>>)),
      Exact(ShapeC(<<1, 2, 3, 2, 3>>)),
      Exact(ShapeD(<<1, 2, 3, 4, 2, 4, 4>>)),
      Exact(ShapeM1(<<2, 3, 1, 3, 1>>)),
      Exact(ShapeM2(<<1, 2, 3, 3, 3>>)) }

TamperValues(a) ==
    (-(WordSize * Len(a))..(WordSize * Len(a))) \cup (InnerFlag..(InnerFlag + 2))

\* one word of a base archive overwritten
TamperedArchives ==
    UNION {{[a EXCEPT ![w] = v] : w \in 1..Len(a), v \in TamperValues(a)} : a \in BaseArchives}

Archives == FreeKeyArchives \cup TamperedArchives

-----------------------------------------------------------------------------

Init ==
    /\ buf \in Archives
    /\ buflen = WordSize * Len(buf)
    /\ pos = 0
    /\ pc = "start"
    /\ root = 0
    /\ ctx = [lo |-> 0, hi |-> buflen, depth |-> 0, claims |-> {}]
    /\ range = [lo |-> 0, hi |-> 0, depth |-> 0]
    /\ len = 0
    /\ nodes = <<>>
    /\ visited = <<>>
    /\ node = [addr |-> 0, inner |-> FALSE, depth |-> 0]
    /\ idx = 0
    /\ i = 0
    /\ entry_count = 0
    /\ result = NoResult
    /\ log = <<>>
    /\ held = <<>>
    /\ shared = {}

Next ==
    \/ check_archived_root_with_context
    \/ CheckRootPtr
    \/ PushPrefixSubtree
    \/ ClaimRoot
    \/ WalkInner
    \/ WalkEntry
    \/ WalkExit
    \/ LeafCheck
    \/ CountCheck
    \/ PopPrefixRange
    \/ Finish

Spec == Init /\ [][Next]_vars

-----------------------------------------------------------------------------
(* A caller driving the context directly: subtree ranges pushed and popped in
   any order, shared pointers checked, finish called at any moment *)

CtxWords == 2
MaxOps == 4
TypeIds == {"T", "U"}

CtxAddrs == {WordSize * w : w \in 0..CtxWords}

Active(c) == <<c.lo, c.hi>>

Issued(name, arg, r) ==
    /\ Len(log) < MaxOps
    /\ log' = Append(log, Op(name, "caller", arg, r))

PushPrefix ==
    /\ pc = "caller"
    /\ \E r \in CtxAddrs, end \in CtxAddrs :
          /\ ctx.lo <= r /\ r <= end /\ end <= ctx.hi
          /\ LET p == push_prefix_subtree_range(ctx, r, end)
             IN  /\ ctx' = p.ctx
                 /\ held' = Append(held, [kind |-> "prefix", token |-> p.token,
                                          arg |-> <<r, end>>, before |-> Active(ctx),
                                          popped |-> FALSE])
                 /\ Issued("push_prefix_subtree_range", r, Ok(0))
    /\ UNCHANGED <<shared, buf, buflen, pos, pc, root, range, len, nodes, visited, node,
                   idx, i, entry_count, result>>

PushSuffix ==
    /\ pc = "caller"
    /\ \E start \in CtxAddrs, r \in CtxAddrs :
          /\ ctx.lo <= start /\ start <= r /\ r <= ctx.hi
          /\ LET p == push_suffix_subtree_range(ctx, start, r)
             IN  /\ ctx' = p.ctx
                 /\ held' = Append(held, [kind |-> "suffix", token |-> p.token,
                                          arg |-> <<start, r>>, before |-> Active(ctx),
                                          popped |-> FALSE])
                 /\ Issued("push_suffix_subtree_range", r, Ok(0))
    /\ UNCHANGED <<shared, buf, buflen, pos, pc, root, range, len, nodes, visited, node,
                   idx, i, entry_count, result>>

\* a token is consumed by the pop it is passed to, whatever the outcome
Pop(k, p, name) ==
    /\ ctx' = p.ctx
    /\ held' = [held EXCEPT ![k].popped = TRUE]
    /\ Issued(name, k, IF p.ok THEN Ok(0) ELSE Err(p.err))
    /\ UNCHANGED <<shared, buf, buflen, pos, pc, root, range, len, nodes, visited, node,
                   idx, i, entry_count, result>>

PopPrefix ==
    /\ pc = "caller"
    /\ \E k \in 1..Len(held) :
          /\ held[k].kind = "prefix" /\ ~held[k].popped
          /\ Pop(k, pop_prefix_range(ctx, held[k].token), "pop_prefix_range")

PopSuffix ==
    /\ pc = "caller"
    /\ \E k \in 1..Len(held) :
          /\ held[k].kind = "suffix" /\ ~held[k].popped
          /\ Pop(k, pop_suffix_range(ctx, held[k].token), "pop_suffix_range")

\* the outcome logged is the error together with the Option returned
CheckShared ==
    /\ pc = "caller"
    /\ \E ptr \in CtxAddrs, t \in TypeIds :
          LET r == check_shared_ptr(shared, ptr, t)
          IN  /\ shared' = r.shared
              /\ Issued("check_shared_ptr", <<ptr, t>>, [r EXCEPT !.err = <<r.err, r.val>>])
    /\ UNCHANGED <<held, buf, buflen, pos, pc, root, ctx, range, len, nodes, visited, node,
                   idx, i, entry_count, result>>

CallFinish ==
    /\ pc = "caller"
    /\ LET f == finish(ctx)
       IN  result' = IF f.ok THEN OkResult
                     ELSE CheckArchiveError("ContextError", ContextError(f.err))
    /\ pc' = "done"
    /\ UNCHANGED <<held, shared, buf, buflen, pos, root, ctx, range, len, nodes, visited,
                   node, idx, i, entry_count, log>>

CtxInit ==
    /\ buf = [w \in 1..CtxWords |-> 0]
    /\ buflen = WordSize * Len(buf)
    /\ pos = 0
    /\ pc = "caller"
    /\ root = 0
    /\ ctx = [lo |-> 0, hi |-> buflen, depth |-> 0, claims |-> {}]
    /\ range = [lo |-> 0, hi |-> 0, depth |-> 0]
    /\ len = 0
    /\ nodes = <<>>
    /\ visited = <<>>
    /\ node = [addr |-> 0, inner |-> FALSE, depth |-> 0]
    /\ idx = 0
    /\ i = 0
    /\ entry_count = 0
    /\ result = NoResult
    /\ log = <<>>
    /\ held = <<>>
    /\ shared = {}

CtxNext ==
    \/ PushPrefix
    \/ PushSuffix
    \/ PopPrefix
    \/ PopSuffix
    \/ CheckShared
    \/ CallFinish

CtxSpec == CtxInit /\ [][CtxNext]_vars

-----------------------------------------------------------------------------
Done == pc = "done"
Accepted == Done /\ result = OkResult

Failed == Done /\ result.outer = "CheckBytesError"
FailedWith(kind) == Failed /\ result.err.kind = kind

-----------------------------------------------------------------------------
(* The tree as the buffer describes it, independently of the walk *)

Target(rel) == rel + Word(buf, rel)
RootNode == Target(PtrBase(root))
ChildrenOf(a) ==
    {Target(PtrBase(a))} \cup {Target(EntryPtrBase(a, j)) : j \in 1..NodeLen(buf, a)}

RECURSIVE Level(_)
Level(d) ==
    IF d = 0 THEN {RootNode}
    ELSE UNION {ChildrenOf(a) : a \in {x \in Level(d - 1) : NodeIsInner(buf, x)}}

Depths == 0..Len(buf)
TreeNodes == UNION {Level(d) : d \in Depths}
LeafDepths == {d \in Depths : \E a \in Level(d) : ~NodeIsInner(buf, a)}

\* first key of the leftmost leaf of the subtree rooted at a
RECURSIVE FirstKeyOfSubtree(_)
FirstKeyOfSubtree(a) ==
    IF NodeIsInner(buf, a) THEN FirstKeyOfSubtree(Target(PtrBase(a)))
    ELSE EntryKey(buf, a, 1)

\* first key of the leaf reached from a through first-entry child pointers
RECURSIVE FirstEntryLeafKey(_)
FirstEntryLeafKey(a) ==
    IF NodeIsInner(buf, a) THEN FirstEntryLeafKey(Target(EntryPtrBase(a, 1)))
    ELSE EntryKey(buf, a, 1)

Region(a) == <<a, a + HeaderSize>>
ClaimOps == {k \in 1..Len(log) : log[k].op = "claim_owned_rel_ptr"}
VisitedAddrs == {visited[k].addr : k \in 1..Len(visited)}

-----------------------------------------------------------------------------
(* C1: in every state of the validation the owned regions are pairwise      *)
(* disjoint and lie inside the buffer; the root, each left-edge child and   *)
(* each entry child that was walked is owned by exactly one claim; a claim  *)
(* that failed with DuplicateClaim targets a region that intersects an      *)
(* owned region, and only successful claims add to the claim set.           *)
C1_OwnedRegionsDisjoint ==
    /\ \A r \in ctx.claims : 0 <= r[1] /\ r[1] < r[2] /\ r[2] <= buflen
    /\ \A r1, r2 \in ctx.claims : r1 # r2 => ~Intersects(r1, r2[1], r2[2])
    /\ \A k \in 1..Len(visited) : Region(visited[k].addr) \in ctx.claims
    /\ \A k1, k2 \in 1..Len(visited) : visited[k1].addr = visited[k2].addr => k1 = k2
    /\ Cardinality(ctx.claims) = Cardinality({k \in ClaimOps : log[k].ok})
    /\ \A k \in ClaimOps :
          /\ log[k].ok => Region(Target(log[k].arg)) \in ctx.claims
          /\ log[k].err = "DuplicateClaim" =>
                \E r \in ctx.claims :
                    Intersects(r, Target(log[k].arg), Target(log[k].arg) + HeaderSize)

\* two sibling entries of one inner node resolve to the same child: DuplicateClaim
C1_Witness ==
    /\ FailedWith("ContextError")
    /\ result.err.ctx = "DuplicateClaim"
    /\ log[Len(log)].site = "entry"
    /\ \E j \in 1..NodeLen(buf, node.addr) :
          /\ EntryPtrBase(node.addr, j) # log[Len(log)].arg
          /\ Target(EntryPtrBase(node.addr, j)) = Target(log[Len(log)].arg)
    /\ Cardinality(ctx.claims) >= 3

(* C2: if validation returns Ok, every leaf reachable from the root lies at *)
(* one and the same depth; InvalidLeafNodeDepth reports two leaf depths     *)
(* that differ and occur in the walk, InnerNodeInLeafLevel an inner node    *)
(* queued behind a leaf.                                                    *)
C2_LeavesSameDepth ==
    /\ Accepted =>
          /\ Cardinality(LeafDepths) = 1
          /\ TreeNodes = VisitedAddrs
    /\ FailedWith("InvalidLeafNodeDepth") =>
          /\ result.err.x # result.err.y
          /\ \A d \in {result.err.x, result.err.y} :
                \E k \in 1..Len(visited) : ~visited[k].inner /\ visited[k].depth = d
    /\ FailedWith("InnerNodeInLeafLevel") =>
          /\ ~nodes[1].inner
          /\ \E k \in 2..Len(nodes) : nodes[k].inner

C2_Witness ==
    /\ Accepted
    /\ \E k \in 1..Len(visited) : visited[k].depth = 2
    /\ Cardinality({k \in 1..Len(visited) : ~visited[k].inner}) = 4

(* C3 as stated: after a successful validation every inner entry's key is   *)
(* the first key of the leftmost leaf of the subtree under the entry's      *)
(* child.                                                                   *)
C3_Original ==
    Accepted =>
        \A a \in {x \in TreeNodes : NodeIsInner(buf, x)} :
            \A j \in 1..NodeLen(buf, a) :
                EntryKey(buf, a, j) = FirstKeyOfSubtree(Target(EntryPtrBase(a, j)))

(* C3 amended: after a successful validation every inner entry's key equals *)
(* tail[0].key of the entry's child node; for a leaf child that is the      *)
(* first key of its subtree, for an inner child it is the first key of the  *)
(* leaf reached through first-entry child pointers, the keys under the      *)
(* child's left-edge pointer not being compared.                            *)
C3_EntryKeyIsChildFirstEntryKey ==
    Accepted =>
        \A a \in {x \in TreeNodes : NodeIsInner(buf, x)} :
            \A j \in 1..NodeLen(buf, a) :
                /\ EntryKey(buf, a, j) = EntryKey(buf, Target(EntryPtrBase(a, j)), 1)
                /\ EntryKey(buf, a, j) = FirstEntryLeafKey(Target(EntryPtrBase(a, j)))

\* a three-level tree is accepted whose root entry's child is an inner node
C3_Witness ==
    /\ Accepted
    /\ NodeIsInner(buf, RootNode)
    /\ NodeIsInner(buf, Target(EntryPtrBase(RootNode, 1)))
    /\ EntryKey(buf, RootNode, 1) # FirstKeyOfSubtree(Target(EntryPtrBase(RootNode, 1)))

-----------------------------------------------------------------------------
\* the addresses met by following forward pointers from a, at most n of them
RECURSIVE ForwardChain(_, _)
ForwardChain(a, n) ==
    IF n = 0 THEN <<>>
    ELSE IF Word(buf, PtrBase(a)) = 0 THEN <<a>>
    ELSE <<a>> \o ForwardChain(Target(PtrBase(a)), n - 1)

QueueAddrs == [k \in 1..Len(nodes) |-> nodes[k].addr]

RECURSIVE KeysFrom(_, _)
KeysFrom(a, j) ==
    IF j > NodeLen(buf, a) THEN <<>> ELSE <<EntryKey(buf, a, j)>> \o KeysFrom(a, j + 1)

\* the keys of the leaves met by following forward pointers from a
RECURSIVE ChainKeys(_, _)
ChainKeys(a, n) ==
    IF n = 0 THEN <<>>
    ELSE IF Word(buf, PtrBase(a)) = 0 THEN KeysFrom(a, 1)
    ELSE KeysFrom(a, 1) \o ChainKeys(Target(PtrBase(a)), n - 1)

RECURSIVE SumTailLens(_)
SumTailLens(k) == IF k = 0 THEN 0 ELSE NodeLen(buf, nodes[k].addr) + SumTailLens(k - 1)

(* C4: if validation returns Ok, following the forward pointers from the    *)
(* first queued leaf visits exactly the queued leaves in queue order and    *)
(* stops at the last one, whose forward offset is 0; UnlinkedLeafNode is    *)
(* returned for a non-last leaf whose forward pointer does not resolve to   *)
(* the next queued leaf, LastLeafForwardPointerNotNull for a last leaf      *)
(* whose forward offset is not 0.                                           *)
C4_ForwardChainIsQueue ==
    /\ Accepted =>
          /\ ForwardChain(nodes[1].addr, Len(buf)) = QueueAddrs
          /\ Word(buf, PtrBase(nodes[Len(nodes)].addr)) = 0
    /\ FailedWith("UnlinkedLeafNode") =>
          /\ i < Len(nodes)
          /\ Target(PtrBase(nodes[i].addr)) # nodes[i + 1].addr
    /\ FailedWith("LastLeafForwardPointerNotNull") =>
          /\ i = Len(nodes)
          /\ Word(buf, PtrBase(nodes[i].addr)) # 0

C4_Witness ==
    /\ Accepted
    /\ Len(nodes) >= 3
    /\ ForwardChain(nodes[1].addr, Len(buf)) = QueueAddrs

(* C5: if validation returns Ok, the keys of all leaf entries, leaf by leaf *)
(* in forward-pointer order, are non-decreasing; UnsortedLeafNodeEntries is *)
(* returned for a leaf with an adjacent pair next.key < prev.key,           *)
(* UnsortedLeafNode for a leaf whose last key exceeds the first key of the  *)
(* next queued leaf.                                                        *)
C5_LeafKeysNonDecreasing ==
    /\ Accepted =>
          LET ks == ChainKeys(nodes[1].addr, Len(buf))
          IN  /\ Len(ks) = SumTailLens(Len(nodes))
              /\ \A k \in 1..(Len(ks) - 1) : ks[k] <= ks[k + 1]
    /\ FailedWith("UnsortedLeafNodeEntries") =>
          \E j \in 1..(NodeLen(buf, nodes[i].addr) - 1) :
              EntryKey(buf, nodes[i].addr, j + 1) < EntryKey(buf, nodes[i].addr, j)
    /\ FailedWith("UnsortedLeafNode") =>
          /\ i < Len(nodes)
          /\ EntryKey(buf, nodes[i + 1].addr, 1)
                < EntryKey(buf, nodes[i].addr, NodeLen(buf, nodes[i].addr))

\* accepted: two leaves of two entries each
C5_Witness ==
    /\ Accepted
    /\ Len(nodes) = 2
    /\ \A k \in 1..2 : NodeLen(buf, nodes[k].addr) = 2

(* C6: validation returns Ok only if the tail lengths of all leaves sum to  *)
(* the header field len; when every queued leaf passed its checks and the   *)
(* sum differs, the result is LengthMismatch with expected = len and        *)
(* actual = the sum.                                                        *)
C6_LengthIsEntryCount ==
    /\ Accepted => SumTailLens(Len(nodes)) = Word(buf, root)
    /\ (Failed /\ i > Len(nodes)) =>
          /\ SumTailLens(Len(nodes)) # Word(buf, root)
          /\ result.err = E2("LengthMismatch", Word(buf, root), SumTailLens(Len(nodes)))
    /\ FailedWith("LengthMismatch") => i > Len(nodes)

\* len raised by one over the n entries of an otherwise valid archive
C6_Witness ==
    /\ FailedWith("LengthMismatch")
    /\ result.err.x = result.err.y + 1
    /\ result.err.y = SumTailLens(Len(nodes))
    /\ Len(nodes) >= 2

-----------------------------------------------------------------------------
(* The order of the phase-2 checks, stated on the queue left by phase 1 *)

ForwardTarget(k) == Target(PtrBase(nodes[k].addr))
ForwardError(k) ==
    IF ForwardTarget(k) < 0 \/ ForwardTarget(k) >= buflen THEN "OutOfBounds"
    ELSE IF ForwardTarget(k) % WordSize # 0 THEN "Unaligned"
    ELSE IF ForwardTarget(k) + HeaderSize > buflen THEN "Overrun"
    ELSE "none"
HasUnsortedEntries(k) ==
    \E j \in 1..(NodeLen(buf, nodes[k].addr) - 1) :
        EntryKey(buf, nodes[k].addr, j + 1) < EntryKey(buf, nodes[k].addr, j)
NextKeyIsLess(k) ==
    EntryKey(buf, nodes[k + 1].addr, 1)
        < EntryKey(buf, nodes[k].addr, NodeLen(buf, nodes[k].addr))

\* per queued node: InnerNodeInLeafLevel, InvalidLeafNodeDepth,
\* UnsortedLeafNodeEntries, forward-pointer context error, UnlinkedLeafNode,
\* then UnsortedLeafNode or LastLeafForwardPointerNotNull
StatedOrderError(k) ==
    IF nodes[k].inner THEN E("InnerNodeInLeafLevel")
    ELSE IF nodes[k].depth # nodes[1].depth
    THEN E2("InvalidLeafNodeDepth", nodes[1].depth, nodes[k].depth)
    ELSE IF HasUnsortedEntries(k) THEN E("UnsortedLeafNodeEntries")
    ELSE IF k < Len(nodes) /\ ForwardError(k) # "none" THEN ContextError(ForwardError(k))
    ELSE IF k < Len(nodes) /\ ForwardTarget(k) # nodes[k + 1].addr THEN E("UnlinkedLeafNode")
    ELSE IF k < Len(nodes) /\ NextKeyIsLess(k) THEN E("UnsortedLeafNode")
    ELSE IF k = Len(nodes) /\ Word(buf, PtrBase(nodes[k].addr)) # 0
    THEN E("LastLeafForwardPointerNotNull")
    ELSE E("none")

\* the same, with InnerNodeInLeafLevel for the next queued node between the
\* forward-pointer context error and UnlinkedLeafNode
ActualOrderError(k) ==
    IF nodes[k].inner THEN E("InnerNodeInLeafLevel")
    ELSE IF nodes[k].depth # nodes[1].depth
    THEN E2("InvalidLeafNodeDepth", nodes[1].depth, nodes[k].depth)
    ELSE IF HasUnsortedEntries(k) THEN E("UnsortedLeafNodeEntries")
    ELSE IF k < Len(nodes) /\ ForwardError(k) # "none" THEN ContextError(ForwardError(k))
    ELSE IF k < Len(nodes) /\ nodes[k + 1].inner THEN E("InnerNodeInLeafLevel")
    ELSE IF k < Len(nodes) /\ ForwardTarget(k) # nodes[k + 1].addr THEN E("UnlinkedLeafNode")
    ELSE IF k < Len(nodes) /\ NextKeyIsLess(k) THEN E("UnsortedLeafNode")
    ELSE IF k = Len(nodes) /\ Word(buf, PtrBase(nodes[k].addr)) # 0
    THEN E("LastLeafForwardPointerNotNull")
    ELSE E("none")

FirstError(F(_)) ==
    LET bad == {k \in 1..Len(nodes) : F(k).kind # "none"}
    IN  IF bad = {}
        THEN IF SumTailLens(Len(nodes)) # Word(buf, root)
             THEN E2("LengthMismatch", Word(buf, root), SumTailLens(Len(nodes)))
             ELSE E("none")
        ELSE F(CHOOSE k \in bad : \A m \in bad : k <= m)

PhaseOneKinds ==
    {"ContextError", "StructCheckError", "TooFewInnerNodeEntries", "TooFewLeafNodeEntries",
     "MismatchedInnerChildKey"}

\* every node pushed so far passed its classification, and every pushed entry
\* child its key comparison; the pushes are in breadth-first order
PhaseOnePassed ==
    /\ \A k \in 1..Len(visited) : check_and_classify(buf, buflen, visited[k].addr).ok
    /\ \A k \in 1..(Len(visited) - 1) : visited[k].depth <= visited[k + 1].depth

(* C7 as stated: the error returned is the first failing check in the order *)
(* phase-1 errors, then per queued node InnerNodeInLeafLevel,               *)
(* InvalidLeafNodeDepth, UnsortedLeafNodeEntries, forward-pointer context   *)
(* error, UnlinkedLeafNode, UnsortedLeafNode or                             *)
(* LastLeafForwardPointerNotNull, and LengthMismatch last.                  *)
C7_Original ==
    (Done /\ i >= 1) => result.err = FirstError(StatedOrderError)

(* C7 amended: as stated, except that within the checks of one queued leaf  *)
(* that is not the last, InnerNodeInLeafLevel for the next queued node      *)
(* comes after the forward-pointer context error and before                 *)
(* UnlinkedLeafNode and UnsortedLeafNode; a phase-1 error is returned       *)
(* before any phase-2 check is made, and LengthMismatch only when every     *)
(* queued leaf passed all checks.                                           *)
C7_FirstFailedCheckInCodeOrder ==
    /\ (Done /\ i >= 1) => result.err = FirstError(ActualOrderError)
    /\ (Failed /\ i = 0) =>
          /\ result.err.kind \in PhaseOneKinds
          /\ entry_count = 0
          /\ \A k \in 1..Len(log) : log[k].op # "check_rel_ptr"
          /\ PhaseOnePassed
    /\ FailedWith("LengthMismatch") =>
          \A k \in 1..Len(nodes) : ActualOrderError(k).kind = "none"

\* a leaf whose forward pointer misses the next queued node, which is an inner node
C7_Witness ==
    /\ FailedWith("InnerNodeInLeafLevel")
    /\ i < Len(nodes)
    /\ ~nodes[i].inner
    /\ nodes[i + 1].inner
    /\ ForwardTarget(i) # nodes[i + 1].addr

-----------------------------------------------------------------------------
WalkOps == {"claim_owned_rel_ptr", "check_rel_ptr"}
Last(q) == q[Len(q)]
OpNames == [k \in 1..Len(log) |-> log[k].op]
CheckBytesOps == {"claim_owned_rel_ptr", "check_rel_ptr", "check_ptr", "bounds_check_ptr"}
Pushed == \E k \in 1..Len(log) : log[k].op = "push_prefix_subtree_range" /\ log[k].ok
Popped == \E k \in 1..Len(log) : log[k].op = "pop_prefix_range" /\ log[k].arg = range.depth

C9_ContextOperationOrder ==
    /\ log # <<>> => log[1].op = "check_ptr" /\ log[1].site = "root"
    /\ Len(log) >= 2 => log[2].op = "push_prefix_subtree_range" /\ log[1].ok
    /\ \A k \in 3..Len(log) :
          \/ log[k].op \in CheckBytesOps /\ log[k].site # "root"
          \/ log[k].op = "claim_owned_rel_ptr" /\ k = 3
          \/ log[k].op = "pop_prefix_range" /\ k > 3 /\ log[k - 1].op \in CheckBytesOps
                /\ log[k - 1].ok
          \/ log[k].op = "finish" /\ log[k - 1].op = "pop_prefix_range" /\ log[k - 1].ok
                /\ k = Len(log)
    /\ Len(log) >= 3 => log[3].op = "claim_owned_rel_ptr" /\ log[3].site = "root"
    /\ result = OkResult =>
          /\ Done
          /\ Last(log).op = "finish" /\ Last(log).ok
          /\ Len(log) >= 6

C9_Witness ==
    /\ Accepted
    /\ OpNames[1] = "check_ptr"
    /\ OpNames[2] = "push_prefix_subtree_range"
    /\ OpNames[Len(log) - 1] = "pop_prefix_range"
    /\ OpNames[Len(log)] = "finish"

(* C10 as stated: on every path on which the prefix range was pushed, the   *)
(* function returns only after pop_prefix_range of that range.              *)
C10_Original == (Done /\ Pushed) => Popped

(* C10 amended: every successful push of the prefix range is matched by a   *)
(* pop_prefix_range of the same token before the function returns on every  *)
(* path on which the root's check_bytes succeeds; when the root's           *)
(* check_bytes returns an error the function returns that error at once and *)
(* the pushed range is left unpopped.                                       *)
C10_PopUnlessCheckBytesFails ==
    (Done /\ Pushed) =>
        /\ Popped <=> result.outer # "CheckBytesError"
        /\ Popped <=> ctx.depth = 0
        /\ ~Popped => ctx.hi = root

\* a return after the pop, and the range it restored
C10_Witness ==
    /\ Done
    /\ Pushed
    /\ Popped
    /\ ctx.depth = 0
    /\ ctx.lo = root + RootSize

-----------------------------------------------------------------------------
(* Subtree ranges pushed and popped by a direct caller of the context *)

Unpopped(h) == {k \in 1..Len(h) : ~h[k].popped}
Top(h) == CHOOSE k \in Unpopped(h) : \A j \in Unpopped(h) : j <= k
PopOf(k) == k \in Unpopped(held) /\ held'[k].popped
NoFailedOp == \A j \in 1..Len(log) : log[j].ok
LastOp == log'[Len(log')]

\* what a successful pop of held[k] leaves active: the range that was active
\* before the push, with the pushed range removed
Remainder(h) ==
    IF h.kind = "prefix" THEN <<h.arg[2], h.before[2]>> ELSE <<h.before[1], h.arg[1]>>

OutOfOrderPopFails(k) ==
    k # Top(held) => ~LastOp.ok /\ LastOp.err = "RangePopOutOfOrder" /\ ctx' = ctx

\* C11 as stated: a pop of any token but the most recently pushed unpopped one
\* fails with RangePopOutOfOrder, and a pop in reverse order of the pushes
\* succeeds and makes the range active before the matching push active again
C11_Original ==
    [][\A k \in 1..Len(held) : PopOf(k) =>
          /\ OutOfOrderPopFails(k)
          /\ (k = Top(held) /\ NoFailedOp) =>
                 LastOp.ok /\ Active(ctx') = held[k].before]_vars

\* C11: a pop of any token but the most recently pushed unpopped one fails with
\* RangePopOutOfOrder and changes nothing; a pop in reverse order of the pushes
\* succeeds, returns the depth to that of the push, and leaves active the range
\* of before the push with the pushed range removed: [end, original end) for a
\* prefix range, [original start, start) for a suffix range
C11_PopInReverseOrder ==
    [][\A k \in 1..Len(held) : PopOf(k) =>
          /\ OutOfOrderPopFails(k)
          /\ (k = Top(held) /\ NoFailedOp) =>
                 /\ LastOp.ok
                 /\ Active(ctx') = Remainder(held[k])
                 /\ ctx'.depth = held[k].token.depth]_vars

\* two ranges, a prefix inside a suffix, popped in reverse order, and one pop
\* that left a range other than the one before its push
C11_Witness ==
    /\ Len(held) = 2 /\ Unpopped(held) = {} /\ NoFailedOp
    /\ held[1].kind = "suffix" /\ held[2].kind = "prefix"
    /\ Remainder(held[2]) # held[2].before
    /\ Active(ctx) = Remainder(held[1])

-----------------------------------------------------------------------------
(* finish *)

PopOps == {"pop_prefix_range", "pop_suffix_range"}

\* the pushed ranges no pop has removed: a failed pop removes nothing
Outstanding ==
    {k \in 1..Len(held) :
        ~\E j \in 1..Len(log) : log[j].op \in PopOps /\ log[j].arg = k /\ log[j].ok}

\* C12: finish() returns Ok exactly when no pushed range, prefix or suffix, is
\* left unpopped; with a pushed range outstanding it returns an error
C12_FinishNeedsEmptyStacks ==
    pc = "done" =>
        /\ result = OkResult <=> Outstanding = {}
        /\ Outstanding # {} =>
               result = CheckArchiveError("ContextError", ContextError("UnpoppedSubtreeRanges"))

\* two ranges pushed, the inner one popped, the outer one left: finish fails
C12_Witness ==
    /\ pc = "done" /\ Len(held) = 2 /\ Outstanding = {1} /\ NoFailedOp
    /\ result # OkResult

-----------------------------------------------------------------------------
(* Pointer checks and the claim set *)

NewOps == {log'[j] : j \in (Len(log) + 1)..Len(log')}
PointerChecks == {"check_ptr", "check_rel_ptr"}
AfterWalk == {"leaves", "count", "pop", "finish"}
ForwardOps == {k \in 1..Len(log) : log[k].op = "check_rel_ptr" /\ log[k].site = "forward"}

\* C13: a step that issues only check_ptr / check_rel_ptr leaves the claim set
\* and the subtree ranges as they were, whether the check succeeds or fails;
\* from the end of the phase-1 walk on no claim is issued and the claim set
\* does not change, so at the end it is the claim set the walk left
C13_PointerChecksClaimNothing ==
    [][/\ (NewOps # {} /\ \A o \in NewOps : o.op \in PointerChecks) => ctx' = ctx
       /\ pc \in AfterWalk =>
              /\ ctx'.claims = ctx.claims
              /\ \A o \in NewOps : o.op # "claim_owned_rel_ptr"]_vars

\* phase 2 resolved one forward pointer and failed to resolve the next, and
\* the owned regions are those of the nodes the walk pushed
C13_Witness ==
    /\ Done
    /\ \E j \in ForwardOps, k \in ForwardOps : log[j].ok /\ ~log[k].ok
    /\ ctx.claims = {Region(a) : a \in VisitedAddrs}
    /\ Cardinality(ctx.claims) >= 3

-----------------------------------------------------------------------------
(* Shared pointers *)

SharedOps == {k \in 1..Len(log) : log[k].op = "check_shared_ptr"}
FirstRecorded(k) ==
    LET first == CHOOSE j \in SharedOps :
                     /\ log[j].arg[1] = log[k].arg[1]
                     /\ \A m \in SharedOps : log[m].arg[1] = log[k].arg[1] => j <= m
    IN  log[first].arg

\* C14: of the check_shared_ptr calls on one context, the first for an
\* address returns Some(ptr) and records the address with its type id; every
\* later call with that address and that type id returns None; a call with
\* that address and another type id fails with SharedTypeMismatch; the entry
\* recorded for an address never changes
C14_SharedPointerOnce ==
    /\ \A k \in SharedOps :
          LET ptr == log[k].arg[1]
              seen == \E j \in SharedOps : j < k /\ log[j].arg[1] = ptr
          IN  /\ ~seen => log[k].ok /\ log[k].err = <<"none", <<"Some", ptr>>>>
              /\ (seen /\ log[k].arg = FirstRecorded(k)) =>
                     log[k].ok /\ log[k].err = <<"none", <<"None">>>>
              /\ (seen /\ log[k].arg # FirstRecorded(k)) =>
                     ~log[k].ok /\ log[k].err[1] = "SharedTypeMismatch"
    /\ shared = {FirstRecorded(k) : k \in SharedOps}

\* one address checked three times: recorded, refused under another type id,
\* then short-circuited under the recorded type id
C14_Witness ==
    \E a \in CtxAddrs, t \in TypeIds, u \in TypeIds :
        /\ t # u
        /\ \E j \in SharedOps :
              /\ j + 2 \in SharedOps /\ j + 1 \in SharedOps
              /\ log[j].arg = <<a, t>> /\ log[j].ok
              /\ log[j + 1].arg = <<a, u>> /\ ~log[j + 1].ok
              /\ log[j + 2].arg = <<a, t>> /\ log[j + 2].err = <<"none", <<"None">>>>
        /\ shared = {<<a, t>>}

-----------------------------------------------------------------------------
(* The byte-check of an inner node entry *)

EntryChecks == {k \in 1..Len(log) : log[k].op = "bounds_check_ptr" /\ log[k].site = "entry"}

\* C15 as stated: the byte-check of an inner node entry issues no context
\* operation on the entry's child pointer, so an entry's child pointer is
\* first resolved by the walk's claim_owned_rel_ptr and no validation ends
\* with an error of the entry's ptr field
C15_Original ==
    /\ EntryChecks = {}
    /\ result.err.kind # "StructCheckError"

-----------------------------------------------------------------------------
(* Valid trees, described apart from the validator: leaves on one level and
   chained in index order, keys non-decreasing along the chain, every inner
   entry keyed by the first key of its child *)

EvenTrees ==
    {ShapeA(ks) : ks \in UNION {Keys(n) : n \in 1..MaxLeafLen}}
    \cup {ShapeB(ks) : ks \in Keys(3)} \cup {ShapeB2(ks) : ks \in Keys(5)}
    \cup {ShapeC(ks) : ks \in Keys(5)} \cup {ShapeD(ks) : ks \in Keys(7)}

Leaves(ds) == {k \in 1..Len(ds) : ~ds[k].inner}

SortedIn(ds, k) == \A j \in 1..(Len(ds[k].keys) - 1) : ds[k].keys[j] <= ds[k].keys[j + 1]
SortedAcross(ds, k) ==
    (ds[k].next # 0 /\ ~ds[ds[k].next].inner) =>
        ds[k].keys[Len(ds[k].keys)] <= ds[ds[k].next].keys[1]
EntryKeysMatch(ds, k) ==
    \A j \in 1..Len(ds[k].keys) : ds[k].keys[j] = ds[ds[k].kids[j]].keys[1]

ValidTree(ds) ==
    /\ \A k \in Leaves(ds) : SortedIn(ds, k) /\ SortedAcross(ds, k)
    /\ \A k \in (1..Len(ds)) \ Leaves(ds) : EntryKeysMatch(ds, k)

EqualIn(ds) ==
    \E k \in Leaves(ds) : \E j \in 1..(Len(ds[k].keys) - 1) : ds[k].keys[j] = ds[k].keys[j + 1]
EqualAcross(ds) ==
    \E k \in Leaves(ds) :
        ds[k].next # 0 /\ ds[k].keys[Len(ds[k].keys)] = ds[ds[k].next].keys[1]

ValidTrees == {ds \in EvenTrees : ValidTree(ds)}
EqualKeyArchives == {Exact(ds) : ds \in {t \in ValidTrees : EqualIn(t) \/ EqualAcross(t)}}
EqualTwiceArchives == {Exact(ds) : ds \in {t \in ValidTrees : EqualIn(t) /\ EqualAcross(t)}}

-----------------------------------------------------------------------------
(* Trees with one subtree a level shallower than its siblings: valid in keys
   and links, the leaves at depths 1 and 2 *)

\* the shallow leaf is the child of the root's entry, behind the inner sibling
ShallowEntryArchives == {Exact(ShapeM1(ks)) : ks \in {q \in Keys(5) : ValidTree(ShapeM1(q))}}
\* the shallow leaf is the root's left-edge child, before the inner sibling
ShallowLeftArchives == {Exact(ShapeM2(ks)) : ks \in {q \in Keys(5) : ValidTree(ShapeM2(q))}}

\* C17 as stated: with the leaf of one subtree at depth d-1 and the other
\* leaves at depth d, validation fails with
\* InvalidLeafNodeDepth{expected: d, actual: d-1}
C17_Original ==
    (Done /\ buf \in ShallowEntryArchives \cup ShallowLeftArchives) =>
        result.err = E2("InvalidLeafNodeDepth", 2, 1)

\* C17: with the leaf of one subtree at depth d-1 and the other leaves at depth
\* d, the shallow leaf is the first leaf at the queue front and sets
\* expected_depth to d-1: validation fails with
\* InvalidLeafNodeDepth{expected: d-1, actual: d} when the shallow leaf is
\* queued behind its inner siblings, and with InnerNodeInLeafLevel when an
\* inner node is queued behind it; in every InvalidLeafNodeDepth the actual
\* depth is greater than the expected one
C17_ShallowSubtree ==
    /\ result.err.kind = "InvalidLeafNodeDepth" => result.err.x < result.err.y
    /\ (Done /\ buf \in ShallowEntryArchives) =>
           result = CheckArchiveError("CheckBytesError", E2("InvalidLeafNodeDepth", 1, 2))
    /\ (Done /\ buf \in ShallowLeftArchives) =>
           result = CheckArchiveError("CheckBytesError", E("InnerNodeInLeafLevel"))

\* the shallow leaf at depth 1 came first, a leaf at depth 2 was refused
C17_Witness ==
    /\ Done /\ buf \in ShallowEntryArchives
    /\ result.err = E2("InvalidLeafNodeDepth", 1, 2)
    /\ nodes[1].depth = 1 /\ nodes[i].depth = 2

-----------------------------------------------------------------------------
(* Valid archives with the forward pointer of one leaf set to offset 0 *)

ChainedTrees ==
    {ShapeB(<<1, 2, 2>>), ShapeB2(<<1, 2, 3, 4, 3>>), ShapeC(<<1, 2, 3, 2, 3>>),
     ShapeD(<<1, 2, 3, 4, 2, 4, 4>>)}

NonLast(ds) == {k \in Leaves(ds) : ds[k].next # 0}
Penultimate(ds) == {k \in NonLast(ds) : ds[ds[k].next].next = 0}
PtrWord(ds, k) == PtrBase(DescAddr(ds, k)) \div WordSize + 1
ZeroedAt(ds, k) == [Exact(ds) EXCEPT ![PtrWord(ds, k)] = 0]

\* C18 as stated: zeroing the forward pointer of a non-last leaf fails with
\* UnlinkedLeafNode, or with LastLeafForwardPointerNotNull when the leaf is
\* the penultimate one
C18_Original ==
    \A ds \in ChainedTrees : \A k \in NonLast(ds) :
        (Done /\ buf = ZeroedAt(ds, k)) =>
            result.err = IF k \in Penultimate(ds)
                         THEN E("LastLeafForwardPointerNotNull") ELSE E("UnlinkedLeafNode")

\* C18: in a valid archive with at least two leaves, zeroing the forward
\* pointer of any non-last leaf, the penultimate one included, fails with
\* UnlinkedLeafNode: offset 0 resolves to the pointer field itself, which is
\* not the next queued leaf
C18_ZeroedForwardUnlinked ==
    \A ds \in ChainedTrees : \A k \in NonLast(ds) :
        (Done /\ buf = ZeroedAt(ds, k)) =>
            result = CheckArchiveError("CheckBytesError", E("UnlinkedLeafNode"))

\* the penultimate of three leaves zeroed: refused as unlinked at that leaf
C18_Witness ==
    \E ds \in ChainedTrees : \E k \in Penultimate(ds) :
        /\ Done /\ buf = ZeroedAt(ds, k) /\ k > 1
        /\ result.err = E("UnlinkedLeafNode")
        /\ nodes[i].addr = DescAddr(ds, k)

-----------------------------------------------------------------------------
(* Valid archives with two adjacent entries of one leaf exchanged *)

Swap(ds, k, j) ==
    [ds EXCEPT ![k].keys = [@ EXCEPT ![j] = ds[k].keys[j + 1], ![j + 1] = ds[k].keys[j]]]

\* the adjacent pairs of a leaf whose keys differ
Pairs(ds, k) == {j \in 1..(Len(ds[k].keys) - 1) : ds[k].keys[j] # ds[k].keys[j + 1]}

EntryChild(ds, k) ==
    \E n \in (1..Len(ds)) \ Leaves(ds) : \E e \in 1..Len(ds[n].kids) : ds[n].kids[e] = k

\* the first two entries of a leaf that is the child of an inner node entry
SwappedUnderEntry ==
    UNION {{Exact(Swap(ds, k, 1)) : k \in {l \in Leaves(ds) : EntryChild(ds, l) /\ 1 \in Pairs(ds, l)}}
           : ds \in ValidTrees}

\* any other pair: of the root leaf, of a left-edge leaf, or past the first entry
SwappedElsewhere ==
    UNION {UNION {{Exact(Swap(ds, k, j)) : j \in {p \in Pairs(ds, k) : ~(p = 1 /\ EntryChild(ds, k))}}
                  : k \in Leaves(ds)}
           : ds \in ValidTrees}

\* C19 as stated: exchanging two adjacent entries of one leaf whose keys
\* differ fails with UnsortedLeafNodeEntries, whichever leaf and pair
C19_Original ==
    (Done /\ buf \in SwappedUnderEntry \cup SwappedElsewhere) =>
        result.err = E("UnsortedLeafNodeEntries")

\* C19: exchanging two adjacent entries of one leaf whose keys differ fails
\* with UnsortedLeafNodeEntries, except for the first two entries of a leaf
\* that is the child of an inner node entry: the walk then finds the leaf's
\* first key different from the entry's key and fails with
\* MismatchedInnerChildKey before the leaf's entries are compared
C19_SwappedEntriesRefused ==
    /\ (Done /\ buf \in SwappedElsewhere) =>
           result = CheckArchiveError("CheckBytesError", E("UnsortedLeafNodeEntries"))
    /\ (Done /\ buf \in SwappedUnderEntry) =>
           result = CheckArchiveError("CheckBytesError", E("MismatchedInnerChildKey"))

\* the first two entries of an entry's child exchanged: refused by the walk
C19_Witness ==
    /\ Done /\ buf \in SwappedUnderEntry
    /\ result.err = E("MismatchedInnerChildKey")
    /\ i = 0

-----------------------------------------------------------------------------
(* Minimum entry counts *)

MinEntries(a) ==
    IF NodeIsInner(buf, a) THEN MIN_ENTRIES_PER_INNER_NODE ELSE MIN_ENTRIES_PER_LEAF_NODE
TooFew(a) ==
    E1(IF NodeIsInner(buf, a) THEN "TooFewInnerNodeEntries" ELSE "TooFewLeafNodeEntries",
       NodeLen(buf, a))
\* the classifications that found the node inside the buffer
Classifications ==
    {k \in 1..Len(log) : log[k].op = "check_ptr" /\ log[k].site = "tail" /\ log[k].ok}

\* C20: every node the walk lets into the queue, the root included, has at
\* least the minimum entry count of its kind; a node classified with fewer
\* entries ends validation at once with TooFewInnerNodeEntries(count) or
\* TooFewLeafNodeEntries(count), before any entry of its tail is byte-checked
C20_MinimumEntriesEnforced ==
    /\ \A k \in 1..Len(visited) :
          NodeLen(buf, visited[k].addr) >= MinEntries(visited[k].addr)
    /\ \A k \in Classifications :
          NodeLen(buf, log[k].arg) < MinEntries(log[k].arg) =>
              /\ k = Len(log)
              /\ result = CheckArchiveError("CheckBytesError", TooFew(log[k].arg))
    /\ result.err.kind \in {"TooFewInnerNodeEntries", "TooFewLeafNodeEntries"} =>
          /\ Len(log) \in Classifications
          /\ result.err = TooFew(Last(log).arg)
          /\ result.err.x < MinEntries(Last(log).arg)

\* the root is an empty leaf: refused when it is classified, nothing queued
C20_Witness ==
    /\ Done /\ visited = <<>>
    /\ result.err = E1("TooFewLeafNodeEntries", 0)
    /\ Last(log).arg = RootNode

-----------------------------------------------------------------------------
(* check_archived_root on the valid archives and on their truncations: the
   last k bytes cut off, for every k up to the whole length; a word cut in
   two is no longer a word of the buffer *)

ValidArchives == {Exact(ds) : ds \in ValidTrees}

Truncated(a, k) ==
    [words |-> SubSeq(a, 1, (WordSize * Len(a) - k) \div WordSize),
     bytes |-> WordSize * Len(a) - k]

Truncations(a) == {Truncated(a, k) : k \in 0..(WordSize * Len(a))}
ProperTruncations(a) == {Truncated(a, k) : k \in 1..(WordSize * Len(a))}

TruncInit ==
    /\ \E a \in ValidArchives : \E t \in Truncations(a) :
          buf = t.words /\ buflen = t.bytes
    /\ pos = 0
    /\ pc = "start"
    /\ root = 0
    /\ ctx = [lo |-> 0, hi |-> buflen, depth |-> 0, claims |-> {}]
    /\ range = [lo |-> 0, hi |-> 0, depth |-> 0]
    /\ len = 0
    /\ nodes = <<>>
    /\ visited = <<>>
    /\ node = [addr |-> 0, inner |-> FALSE, depth |-> 0]
    /\ idx = 0
    /\ i = 0
    /\ entry_count = 0
    /\ result = NoResult
    /\ log = <<>>
    /\ held = <<>>
    /\ shared = {}

TruncSpec == TruncInit /\ [][Next]_vars

Input == [words |-> buf, bytes |-> buflen]
AllProperTruncations == UNION {ProperTruncations(a) : a \in ValidArchives}
ReturnedError == result.outer \in {"ContextError", "CheckBytesError"}

\* C21 as stated: a valid archive validates, and validating it with its last
\* k >= 1 bytes cut off returns an error, also when fewer bytes are left than
\* the root object takes
C21_Original ==
    /\ (Done /\ Input \in {Truncated(a, 0) : a \in ValidArchives}) => Accepted
    /\ (Done /\ Input \in AllProperTruncations) => ReturnedError

-----------------------------------------------------------------------------
(* Depths in the queue *)

QueueDepthsOrdered ==
    /\ \A k \in 1..(Len(nodes) - 1) : nodes[k].depth <= nodes[k + 1].depth
    /\ nodes # <<>> => Last(nodes).depth <= nodes[1].depth + 1

\* a step that queues a node puts it behind all queued nodes: the root at
\* depth 0, a child one level below the inner node removed last
QueuedBehindAtNextDepth ==
    visited' # visited =>
        /\ visited' = Append(visited, Last(nodes'))
        /\ nodes' = Append(IF node' = node THEN nodes ELSE Tail(nodes), Last(nodes'))
        /\ Last(nodes').depth = IF visited = <<>> THEN 0 ELSE node'.depth + 1
        /\ visited # <<>> => node'.inner /\ node' \in {visited[k] : k \in 1..Len(visited)}

\* C22: the root is queued at depth 0 and every child of a node removed at
\* depth d is queued at depth d+1 behind all queued nodes; at every step the
\* depths in the queue are non-decreasing from front to back and span at most
\* two consecutive values; an InvalidLeafNodeDepth has actual > expected
C22_QueueDepths ==
    /\ [](QueueDepthsOrdered
          /\ (result.err.kind = "InvalidLeafNodeDepth" => result.err.x < result.err.y))
    /\ [][QueuedBehindAtNextDepth]_vars

\* mid-walk of a three-level tree: inner nodes of depth 1 at the front, leaves
\* of depth 2 behind them
C22_Witness ==
    /\ Len(nodes) >= 3
    /\ nodes[1].depth = 1 /\ nodes[1].inner
    /\ Last(nodes).depth = 2 /\ ~Last(nodes).inner

-----------------------------------------------------------------------------
(* Keys under the left-edge child *)

RECURSIVE LeavesUnder(_, _)
LeavesUnder(a, fuel) ==
    IF ~NodeIsInner(buf, a) THEN {a}
    ELSE IF fuel = 0 THEN {}
    ELSE UNION {LeavesUnder(c, fuel - 1) : c \in ChildrenOf(a)}

KeysOf(leaf) == {EntryKey(buf, leaf, j) : j \in 1..NodeLen(buf, leaf)}
KeysUnder(a) == UNION {KeysOf(l) : l \in LeavesUnder(a, Len(buf))}
InnerVisited == {a \in VisitedAddrs : NodeIsInner(buf, a)}

\* C23: after a successful validation every key stored in the leaves under
\* the left-edge child of an inner node is less than or equal to that node's
\* first entry key
C23_LeftEdgeKeysBelowFirstEntry ==
    Accepted =>
        \A a \in InnerVisited :
            \A key \in KeysUnder(Target(PtrBase(a))) : key <= EntryKey(buf, a, 1)

\* accepted three-level tree: the root's left-edge child is an inner node with
\* two leaves under it, one of them with a key below the root's entry key
C23_Witness ==
    /\ Accepted
    /\ NodeIsInner(buf, RootNode) /\ NodeIsInner(buf, Target(PtrBase(RootNode)))
    /\ Cardinality(LeavesUnder(Target(PtrBase(RootNode)), Len(buf))) = 2
    /\ \E key \in KeysUnder(Target(PtrBase(RootNode))) : key < EntryKey(buf, RootNode, 1)

-----------------------------------------------------------------------------
(* Equal keys in an accepted map *)

\* C24 as stated: after a successful validation no two entries of the map
\* have keys that compare equal
C24_Original ==
    Accepted =>
        LET ks == ChainKeys(nodes[1].addr, Len(buf))
        IN  \A p \in 1..Len(ks), q \in 1..Len(ks) : p # q => ks[p] # ks[q]

-----------------------------------------------------------------------------
(* Termination.  The validation is one sequential call: a step that can be
   taken is taken. *)

\* the words of a tree's archive that hold a child pointer or the root pointer
PointerWords(ds) ==
    {PtrWord(ds, k) : k \in (1..Len(ds)) \ Leaves(ds)}
    \cup UNION {{EntryPtrBase(DescAddr(ds, k), j) \div WordSize + 1 : j \in 1..Len(ds[k].keys)}
               : k \in (1..Len(ds)) \ Leaves(ds)}
    \cup {Len(Exact(ds))}

\* where a redirected pointer may lead: to any node of the tree (an ancestor,
\* the node itself, a sibling, a node of another level), before the buffer,
\* past its end
RedirectTargets(ds) ==
    {DescAddr(ds, k) : k \in 1..Len(ds)} \cup {-WordSize, WordSize * Len(Exact(ds))}

\* valid archives, and the same with one pointer redirected
RedirectedArchives ==
    UNION {{Exact(ds)} \cup {[Exact(ds) EXCEPT ![w] = t - WordSize * (w - 1)] :
                                w \in PointerWords(ds), t \in RedirectTargets(ds)}
           : ds \in ChainedTrees}

LiveInit ==
    /\ buf \in RedirectedArchives
    /\ buflen = WordSize * Len(buf)
    /\ pos = 0
    /\ pc = "start"
    /\ root = 0
    /\ ctx = [lo |-> 0, hi |-> buflen, depth |-> 0, claims |-> {}]
    /\ range = [lo |-> 0, hi |-> 0, depth |-> 0]
    /\ len = 0
    /\ nodes = <<>>
    /\ visited = <<>>
    /\ node = [addr |-> 0, inner |-> FALSE, depth |-> 0]
    /\ idx = 0
    /\ i = 0
    /\ entry_count = 0
    /\ result = NoResult
    /\ log = <<>>
    /\ held = <<>>
    /\ shared = {}

LiveSpec == LiveInit /\ [][Next]_vars /\ WF_vars(Next)

ClaimedBefore(k) == {Region(Target(log[j].arg)) : j \in {j \in ClaimOps : j < k /\ log[j].ok}}
Resolves(k) ==
    LET p == check_rel_ptr(buf, buflen, log[k].arg, HeaderSize)
    IN  p.ok /\ check_subtree_ptr_bounds(ctx, p.val, HeaderSize).ok
Owned(k) ==
    \E r \in ClaimedBefore(k) :
        Intersects(r, Target(log[k].arg), Target(log[k].arg) + HeaderSize)

ClaimsBounded ==
    /\ \A k \in ClaimOps : Resolves(k) =>
          IF Owned(k) THEN ~log[k].ok /\ log[k].err = "DuplicateClaim" ELSE log[k].ok
    /\ Cardinality(ctx.claims) * HeaderSize <= buflen
    /\ Len(visited) <= Cardinality(ctx.claims)
    /\ Accepted =>
          /\ \A k \in ClaimOps : log[k].ok
          /\ Cardinality(ClaimOps) = Cardinality(TreeNodes)

\* a step that queues a node has claimed bytes no claim owned before
ClaimsFreshBytes ==
    visited' # visited =>
        \E r \in ctx'.claims :
            /\ ctx'.claims = ctx.claims \cup {r}
            /\ \A o \in ctx.claims : ~Intersects(o, r[1], r[2])

\* C25: validation terminates on every buffer, also when child pointers form
\* a cycle or lead back to an ancestor: every node queued has claimed bytes
\* no claim owned before, a pointer into an owned node fails with
\* DuplicateClaim, the owned regions never outgrow the buffer, and on success
\* there is one claim_owned_rel_ptr call per node of the tree
C25_ValidationTerminates ==
    /\ <>Done
    /\ []ClaimsBounded
    /\ [][ClaimsFreshBytes]_vars

\* a child pointer led back to the root and was refused
C25_Witness ==
    /\ Done
    /\ \E k \in ClaimOps :
          /\ log[k].err = "DuplicateClaim" /\ log[k].site # "root"
          /\ Target(log[k].arg) = RootNode
    /\ result = CheckArchiveError("CheckBytesError", ContextError("DuplicateClaim"))

-----------------------------------------------------------------------------
(* Phase 2 indexes the queue and the tails without a check of its own *)

\* the while loop has ended without an error
WalkEnded == pc \in {"leaves", "count"} \/ (pc = "walk" /\ ~FrontIsInner)

\* tail[0] and tail[len - 1] of the node at a exist and lie in the buffer
TailIndexable(a) ==
    /\ NodeLen(buf, a) >= 1
    /\ EntryAddr(a, 1) >= 0
    /\ EntryAddr(a, NodeLen(buf, a)) + EntrySize <= buflen

\* C26: when the walk ends without an error the queue is not empty, so
\* nodes.front().unwrap() succeeds and nodes.len() - 1 does not underflow,
\* the index of the leaf loop stays inside the queue, and every node that
\* was classified and queued has a tail of at least one entry, so tail[0]
\* and tail[len - 1] are in range
C26_PhaseTwoAccessesInRange ==
    /\ WalkEnded => nodes # <<>>
    /\ pc = "leaves" => i \in 1..Len(nodes)
    /\ \A k \in 1..Len(visited) : TailIndexable(visited[k].addr)
    /\ \A k \in 1..Len(nodes) : \E j \in 1..Len(visited) : visited[j] = nodes[k]

\* inner nodes were removed from the queue, the walk ended and the leaf loop
\* has compared the tails of two queued leaves
C26_Witness ==
    /\ pc = "leaves"
    /\ Len(nodes) < Len(visited)
    /\ i >= 2
    /\ result = NoResult
====
